---- MODULE Spec2Model ----
(***************************************************************************)
(* A model of pandda_gemmi: the shell partitioner Shells.from_datasets     *)
(* (types.py) and the driver main with its nested process_shell            *)
(* (analyse.py).                                                           *)
(*                                                                         *)
(* Resolutions are integers: one unit is one step of the resolution scale  *)
(* (a larger value is a coarser dataset).  A Python dict is a sequence of  *)
(* its keys in insertion order; a Python list is a sequence.               *)
(***************************************************************************)
EXTENDS Integers, Sequences, FiniteSets, TLC

\* ------------------------------------------------------------------ bounds
MaxDatasets == 4      \* most datasets handed to the partitioner
MaxRes == 3           \* resolutions are drawn from 1..MaxRes
MaxMinChar == 3       \* min_characterisation_datasets is drawn from 1..MaxMinChar
MaxShellDatasets == 2 \* max_shell_datasets is drawn from 0..MaxShellDatasets
MaxIncrement == 2     \* high_res_increment is drawn from 0..MaxIncrement
MaxMainDatasets == 3  \* most datasets main loads from the data directories
MaxValidatorMin == 2  \* the validator's minimum is drawn from 1..MaxValidatorMin
MaxProcDatasets == 2  \* most datasets spread over the shells main processes
MaxUsableTrain == 2   \* a shell's usable training datasets are drawn from 0..MaxUsableTrain
MaxEvents == 1        \* events found in one test dataset are drawn from 0..MaxEvents
MaxFitDatasets == 3   \* most datasets of the run when one shell is followed through
MaxSiteEvents == 3    \* most events handed to the site aggregation
MaxSitePos == 3       \* event centroids lie at 0..MaxSitePos Angstrom on a line
MaxClusters == 2      \* most clusters found in one shell
MaxClusterPos == 2    \* cluster centroids lie at 0..MaxClusterPos on a line
MaxVolume == 2        \* cluster volumes are drawn from 1..MaxVolume voxel volumes
MaxPeak == 2          \* cluster peak |z| values are drawn from 1..MaxPeak
MaxEventClusters == 2 \* most merged clusters handed to Events.from_clusters
MaxBdc == 2           \* BDC values are drawn from 0..MaxBdc steps of the BDC scale
MaxIncDatasets == 2   \* most datasets handed to remove_incomplete_up_to_resolution_datasets
MaxChains == 3        \* most chains of a structure handed to Alignment.from_dataset
MaxChainLen == 3      \* most polymer residues of a chain

Dtags == 1..MaxDatasets

NoShell == [test_dtags |-> <<>>, train_dtags |-> <<>>, datasets |-> {},
            res_max |-> 0, res_min |-> 0]

VARIABLES
    \* ---- Shells.from_datasets: arguments
    datasets,                      \* keys of datasets.datasets, in insertion order
    resolution,                    \* dtag -> reflections.resolution().resolution
    min_characterisation_datasets, \* resolution_binning.min_characterisation_datasets
    max_shell_datasets,            \* resolution_binning.max_shell_datasets
    high_res_increment,            \* resolution_binning.high_res_increment
    \* ---- Shells.from_datasets: locals
    pc,            \* "start", "loop", "returned", "raised"
    sorted_dtags,
    train_dtags,
    shells,        \* the list `shells = []`
    shell_num,
    shell_dtags,
    shell_res,
    idx,           \* position of the for loop in sorted_dtags (1-based)
    shell,         \* the Shell constructed last at types.py:621 (NoShell before)
    result,        \* "running", "None" (falls off the end), "IndexError"
    \* ---- main: arguments and inputs
    local_processing,
    global_processing,
    comparison_strategy,
    validator_min_datasets, \* config...min_characterisation_datasets (analyse.py:204)
    fails,                  \* dtag -> the pre-processing filter it fails, or "none"
    \* ---- main: locals
    mpc,           \* position in main
    error,         \* the exception that ended main, or "none"
    collections,   \* the Datasets locals datasets_initial ... datasets, by name
    \* ---- main, from line 338 on: the shells and their processing
    run_shells,    \* shell number -> its test dtags (the result of get_shells)
    usable_train,  \* shell number -> how many of its training datasets are usable
    n_events,      \* dtag -> how many events its Z-map yields
    shell_state,   \* shell number -> "pending", "running", "fitted", "returned", "failed"
    shells_log,    \* the keys of pandda_log.shells_log
    all_events,    \* the dict all_events: EventID -> Event
    shell_results, \* shell number -> what process_shell gave back
    event_table,   \* EventTable.from_events(...), the set of its rows
    site_table,    \* SiteTable.from_events(...), here the events it was built from
    zmaps,         \* shell number -> the dtags of the Z-maps process_shell computed
    run_train,     \* the training dtags the shells carry
    models,        \* shell number -> the dtags each part of its model was fitted from
    \* ---- main, lines 512-521: the site aggregation
    events_in,     \* all_events_events: a sequence of events [dtag, x]
    site_order,    \* the positions of events_in in the order they were taken up
    sites,         \* the sites so far: a set of sets of positions of events_in
    site_rows,     \* the rows of the site table
    spc,           \* "idle", "sites", "done"
    \* ---- process_shell, lines 447-474: clusters of one shell
    min_blob_volume,    \* config.params.blob_finding.min_blob_volume, in voxel volumes
    min_blob_z_peak,    \* config.params.blob_finding.min_blob_z_peak
    clusterings,        \* the clusters found in the Z-maps
    clusterings_large,
    clusterings_peaked,
    clusterings_merged,
    cluster_events,     \* the merged clusters Events.from_clusters made events of
    cpc,                \* "idle", "clustered", "large", "peaked", "merged", "events"
    \* ---- process_shell, line 474: Events.from_clusters and the BDC of each event
    min_bdc,       \* config.params.background_correction.min_bdc
    max_bdc,       \* config.params.background_correction.max_bdc
    increment,     \* config.params.background_correction.increment
    bdc_scan,      \* the range Events.from_clusters scans: [min, max]
    merged_in,     \* the merged clusters, each TRUE when its surrounding region is degenerate
    shell_events,  \* `events`, as far as it is built: a sequence of [cluster, bdc]
    epc,           \* "idle", "events", "returned", "failed"
    \* ---- Datasets.remove_incomplete_up_to_resolution_datasets
    inc_datasets,      \* self.datasets: dtag -> the d-spacings of its reflections of amplitude 0
    inc_resolution,    \* the argument resolution
    structure_factors, \* the argument structure_factors
    inc_idx,           \* the dtag the filter is at
    new_datasets,      \* the dtags kept so far
    ipc,               \* "idle", "filter", "returned", "AttributeError"
    \* ---- Alignment.from_dataset
    chains,        \* the chains of the dataset's model: chain -> number of polymer residues
    chain_idx,     \* the chain the loop is at
    res_idx,       \* the residue of that chain the loop is at
    transforms,    \* the dict transforms: ResidueID -> the Transform constructor used
    apc            \* "idle", "loop", "returned", "AttributeError"

pvars == <<datasets, resolution, min_characterisation_datasets, max_shell_datasets,
           high_res_increment, pc, sorted_dtags, train_dtags, shells, shell_num,
           shell_dtags, shell_res, idx, shell, result>>

mvars == <<local_processing, global_processing, comparison_strategy,
           validator_min_datasets, fails, mpc, error, collections>>

rvars == <<run_shells, usable_train, n_events, shell_state, shells_log, all_events,
           shell_results, event_table, site_table, zmaps, run_train, models>>

svars == <<events_in, site_order, sites, site_rows, spc>>

cvars == <<min_blob_volume, min_blob_z_peak, clusterings, clusterings_large,
           clusterings_peaked, clusterings_merged, cluster_events, cpc>>

evars == <<min_bdc, max_bdc, increment, bdc_scan, merged_in, shell_events, epc>>

xvars == <<svars, cvars, evars>>

ivars == <<inc_datasets, inc_resolution, structure_factors, inc_idx, new_datasets,
           ipc>>

avars == <<chains, chain_idx, res_idx, transforms, apc>>

yvars == <<ivars, avars>>

vars == <<pvars, mvars, rvars, xvars, yvars>>

\* Datasets.remove_incomplete_up_to_resolution_datasets has not been called.
IIdle ==
    /\ inc_datasets = <<>>
    /\ inc_resolution = 1
    /\ structure_factors = <<>>
    /\ inc_idx = 0
    /\ new_datasets = {}
    /\ ipc = "idle"

\* Alignment.from_dataset has not been called.
AIdle ==
    /\ chains = <<>>
    /\ chain_idx = 0
    /\ res_idx = 0
    /\ transforms = <<>>
    /\ apc = "idle"

YIdle == IIdle /\ AIdle

\* The site aggregation has not been entered.
SIdle ==
    /\ events_in = <<>>
    /\ site_order = <<>>
    /\ sites = {}
    /\ site_rows = {}
    /\ spc = "idle"

\* No shell's clusters are being processed.
CIdle ==
    /\ min_blob_volume = 1
    /\ min_blob_z_peak = 1
    /\ clusterings = {}
    /\ clusterings_large = {}
    /\ clusterings_peaked = {}
    /\ clusterings_merged = {}
    /\ cluster_events = {}
    /\ cpc = "idle"

\* Events.from_clusters has not been called.
EIdle ==
    /\ min_bdc = 0
    /\ max_bdc = 0
    /\ increment = 1
    /\ bdc_scan = [min |-> 0, max |-> 0]
    /\ merged_in = <<>>
    /\ shell_events = <<>>
    /\ epc = "idle"

\* ------------------------------------------------------------- sequences
Range(s) == {s[k] : k \in DOMAIN s}

Min2(a, b) == IF a < b THEN a ELSE b

\* s[:k] of Python: the first k elements, or all of s when it is shorter.
Slice(s, k) == SubSeq(s, 1, IF k < Len(s) THEN k ELSE Len(s))

\* One step of a stable insertion: d goes behind every element whose key is
\* not larger than its own.
RECURSIVE InsertByKey(_, _, _)
InsertByKey(s, d, key) ==
    IF s = <<>> THEN <<d>>
    ELSE IF key[s[Len(s)]] <= key[d] THEN Append(s, d)
    ELSE Append(InsertByKey(SubSeq(s, 1, Len(s) - 1), d, key), s[Len(s)])

\* list(sorted(keys, key=...)): Python's sort is stable, so equal keys keep
\* their insertion order.
RECURSIVE Sorted(_, _)
Sorted(s, key) ==
    IF s = <<>> THEN <<>>
    ELSE InsertByKey(Sorted(SubSeq(s, 1, Len(s) - 1), key), s[Len(s)], key)

\* ------------------------------------------------ Shells.from_datasets
\* Mutant of TrainDtags: sorted_dtags[-k:], the coarsest k.
TrainDtagsFromEnd(sorted, k) ==
    SubSeq(sorted, (IF k < Len(sorted) THEN Len(sorted) - k ELSE 0) + 1, Len(sorted))

\* train_dtags = sorted_dtags[:min_characterisation_datasets]
TrainDtags(sorted, k) == Slice(sorted, k)

\* Mutant of CloseShell: the resolution span is not looked at.
CloseShellCountOnly(n, res, sres) == n > max_shell_datasets

\* The condition that closes a shell.
CloseShell(n, res, sres) ==
    (n > max_shell_datasets) \/ (res - sres > high_res_increment)

\* Datasets({dtag: ... for dtag in datasets if dtag in shell_dtags or train_dtags}):
\* `or` binds weaker than `in`, so the filter is (dtag in shell_dtags) or
\* bool(train_dtags).
ShellDatasets(test, train) ==
    {d \in Range(datasets) : d \in Range(test) \/ train # <<>>}

\* Mutant of MakeShell: res_min is the resolution at which the shell started.
MakeShellMinIsStart(test, train, sres, res) ==
    [test_dtags |-> test, train_dtags |-> train,
     datasets |-> ShellDatasets(test, train),
     res_max |-> sres, res_min |-> sres]

\* Mutant of MakeShell: the two bounds are swapped.
MakeShellSwapped(test, train, sres, res) ==
    [test_dtags |-> test, train_dtags |-> train,
     datasets |-> ShellDatasets(test, train),
     res_max |-> res, res_min |-> sres]

\* Mutant of MakeShell: the shell's own members are handed over as its
\* training set.
MakeShellTrainIsTest(test, train, sres, res) ==
    [test_dtags |-> test, train_dtags |-> test,
     datasets |-> ShellDatasets(test, train),
     res_max |-> sres, res_min |-> res]

\* Shell(shell_dtags, train_dtags, Datasets(...), res_max=shell_res, res_min=res)
MakeShell(test, train, sres, res) ==
    [test_dtags |-> test, train_dtags |-> train,
     datasets |-> ShellDatasets(test, train),
     res_max |-> sres, res_min |-> res]

PInit ==
    /\ \E n \in 0..MaxDatasets : datasets = [k \in 1..n |-> k]
    /\ resolution \in [Dtags -> 1..MaxRes]
    /\ min_characterisation_datasets \in 1..MaxMinChar
    /\ max_shell_datasets \in 0..MaxShellDatasets
    /\ high_res_increment \in 0..MaxIncrement
    /\ pc = "start"
    /\ sorted_dtags = <<>>
    /\ train_dtags = <<>>
    /\ shells = <<>>
    /\ shell_num = 0
    /\ shell_dtags = <<>>
    /\ shell_res = 0
    /\ idx = 0
    /\ shell = NoShell
    /\ result = "running"

\* types.py:606-615, everything before the loop.  sorted_dtags[0] of an empty
\* list raises IndexError.
Setup ==
    /\ pc = "start"
    /\ LET sd == Sorted(datasets, resolution) IN
         /\ sorted_dtags' = sd
         /\ train_dtags' = TrainDtags(sd, min_characterisation_datasets)
         /\ IF sd = <<>>
              THEN /\ pc' = "raised"
                   /\ result' = "IndexError"
                   /\ UNCHANGED <<shell_res, idx>>
              ELSE /\ pc' = "loop"
                   /\ shell_res' = resolution[sd[1]]
                   /\ idx' = 1
                   /\ UNCHANGED result
    /\ UNCHANGED <<datasets, resolution, min_characterisation_datasets,
                   max_shell_datasets, high_res_increment, shells, shell_num,
                   shell_dtags, shell>>

\* One iteration in which the closing condition is false: line 634 only.
IterateAppend ==
    /\ pc = "loop"
    /\ idx <= Len(sorted_dtags)
    /\ LET dtag == sorted_dtags[idx]
           res == resolution[dtag] IN
         /\ ~CloseShell(Len(shell_dtags), res, shell_res)
         /\ shell_dtags' = Append(shell_dtags, dtag)
         /\ idx' = idx + 1
    /\ UNCHANGED <<datasets, resolution, min_characterisation_datasets,
                   max_shell_datasets, high_res_increment, pc, sorted_dtags,
                   train_dtags, shells, shell_num, shell_res, shell, result>>

\* One iteration in which the closing condition is true: lines 621-634.  The
\* Shell is constructed, then `shells[shell_num] = shell` assigns into the list
\* `shells`; a list index that is not below len(shells) raises IndexError and
\* the call ends there.
IterateClose ==
    /\ pc = "loop"
    /\ idx <= Len(sorted_dtags)
    /\ LET dtag == sorted_dtags[idx]
           res == resolution[dtag]
           new == MakeShell(shell_dtags, train_dtags, shell_res, res) IN
         /\ CloseShell(Len(shell_dtags), res, shell_res)
         /\ shell' = new
         /\ IF shell_num < Len(shells)
              THEN /\ shells' = [shells EXCEPT ![shell_num + 1] = new]
                   /\ shell_dtags' = <<dtag>>
                   /\ shell_res' = res
                   /\ shell_num' = shell_num + 1
                   /\ idx' = idx + 1
                   /\ UNCHANGED <<pc, result>>
              ELSE /\ pc' = "raised"
                   /\ result' = "IndexError"
                   /\ UNCHANGED <<shells, shell_dtags, shell_res, shell_num, idx>>
    /\ UNCHANGED <<datasets, resolution, min_characterisation_datasets,
                   max_shell_datasets, high_res_increment, sorted_dtags,
                   train_dtags>>

\* The loop is exhausted: the function has no return statement and no code
\* after the loop, so it returns None.
FallOffEnd ==
    /\ pc = "loop"
    /\ idx > Len(sorted_dtags)
    /\ pc' = "returned"
    /\ result' = "None"
    /\ UNCHANGED <<datasets, resolution, min_characterisation_datasets,
                   max_shell_datasets, high_res_increment, sorted_dtags,
                   train_dtags, shells, shell_num, shell_dtags, shell_res, idx,
                   shell>>

\* main is not running.
MIdle ==
    /\ local_processing = "joblib"
    /\ global_processing = "serial"
    /\ comparison_strategy = "closest"
    /\ validator_min_datasets = 1
    /\ fails = [d \in {} |-> "none"]
    /\ mpc = "idle"
    /\ error = "none"
    /\ collections = [n \in {} |-> {}]

\* No shell has been formed yet.
RIdle ==
    /\ run_shells = <<>>
    /\ usable_train = <<>>
    /\ n_events = <<>>
    /\ shell_state = <<>>
    /\ shells_log = {}
    /\ all_events = <<>>
    /\ shell_results = <<>>
    /\ event_table = {}
    /\ site_table = {}
    /\ zmaps = <<>>
    /\ run_train = {}
    /\ models = <<>>

Init == PInit /\ MIdle /\ RIdle /\ SIdle /\ CIdle /\ EIdle /\ YIdle

Next ==
    \/ Setup /\ UNCHANGED <<mvars, rvars, xvars, yvars>>
    \/ IterateAppend /\ UNCHANGED <<mvars, rvars, xvars, yvars>>
    \/ IterateClose /\ UNCHANGED <<mvars, rvars, xvars, yvars>>
    \/ FallOffEnd /\ UNCHANGED <<mvars, rvars, xvars, yvars>>

Spec == Init /\ [][Next]_vars

\* Shells.from_datasets is not running.
PIdle ==
    /\ datasets = <<>>
    /\ resolution = [d \in Dtags |-> 1]
    /\ min_characterisation_datasets = 1
    /\ max_shell_datasets = 0
    /\ high_res_increment = 0
    /\ pc = "idle"
    /\ sorted_dtags = <<>>
    /\ train_dtags = <<>>
    /\ shells = <<>>
    /\ shell_num = 0
    /\ shell_dtags = <<>>
    /\ shell_res = 0
    /\ idx = 0
    /\ shell = NoShell
    /\ result = "running"

\* ------------------------------------------------------------------ main
MainDtags == 1..MaxMainDatasets

\* What a dataset can fail: the column check, the resolution cutoff, R-free,
\* the RMSD to the reference, the gap check, the space group.
FilterStages == {"structure_factors", "low_resolution", "rfree", "rmsd", "gaps",
                 "space_group"}

LocalProcessings == {"serial", "joblib", "multiprocessing", "other"}

GlobalProcessings == {"serial", "cluster", "other"}

ComparisonStrategies == {"closest", "closest_cutoff", "high_res", "high_res_random",
                         "other"}

CollectionNames == {"datasets_initial", "datasets_invalid", "datasets_low_res",
                    "datasets_rfree", "datasets_wilson", "datasets_smoother",
                    "datasets_diss_struc", "datasets_gaps", "datasets_diss_space",
                    "datasets"}

\* analyse.py:172-181.  The outcome of selecting the local processor.
LocalProcessor(lp) ==
    CASE lp = "serial" -> "NotImplementedError"
      [] lp = "joblib" -> "ok"
      [] lp = "multiprocessing" -> "NotImplementedError"
      [] OTHER -> "Exception"

\* analyse.py:184-190.  The outcome of selecting the global processor.
GlobalProcessor(gp) ==
    CASE gp = "serial" -> "ok"
      [] gp = "cluster" -> "NotImplementedError"
      [] OTHER -> "Exception"

\* analyse.py:301-325.  The outcome of assigning the comparators.
Comparators(cs) ==
    CASE cs = "closest" -> "NotImplementedError"
      [] cs = "closest_cutoff" -> "NotImplementedError"
      [] cs = "high_res" -> "NotImplementedError"
      [] cs = "high_res_random" -> "ok"
      [] OTHER -> "Exception"

\* validators.DatasetsValidator.validate: too few datasets in the collection
\* is InsufficientDataError.
Validate(ds) ==
    IF Cardinality(ds) < validator_min_datasets THEN "InsufficientDataError" ELSE "ok"

\* One of the Datasets filters of types.py: a new collection of the members
\* that pass the stage's test.
RemoveFailing(ds, stage) == {d \in ds : fails[d] # stage}

\* Datasets.remove_bad_wilson returns self.
RemoveBadWilson(ds) == ds

\* Datasets.smooth_datasets keeps every dataset.
SmoothDatasets(ds) == ds

MInit ==
    /\ local_processing \in LocalProcessings
    /\ global_processing \in GlobalProcessings
    /\ comparison_strategy \in ComparisonStrategies
    /\ validator_min_datasets \in 1..MaxValidatorMin
    /\ \E n \in 0..MaxMainDatasets : fails \in [1..n -> FilterStages \cup {"none"}]
    /\ mpc = "processors"
    /\ error = "none"
    /\ collections = [n \in CollectionNames |-> {}]

Raise(e) == mpc' = "raised" /\ error' = e

margs == <<local_processing, global_processing, comparison_strategy,
           validator_min_datasets, fails>>

\* analyse.py:172-190.
SelectProcessors ==
    /\ mpc = "processors"
    /\ IF LocalProcessor(local_processing) # "ok"
         THEN Raise(LocalProcessor(local_processing))
         ELSE IF GlobalProcessor(global_processing) # "ok"
                THEN Raise(GlobalProcessor(global_processing))
                ELSE mpc' = "load" /\ UNCHANGED error
    /\ UNCHANGED <<margs, collections>>

\* analyse.py:198.
LoadDatasets ==
    /\ mpc = "load"
    /\ collections' = [collections EXCEPT !.datasets_initial = DOMAIN fails]
    /\ mpc' = "filter_invalid"
    /\ UNCHANGED <<margs, error>>

\* A filter followed by the validation of what it returned: `target` is
\* assigned filtered, validated, and main goes on at `next`.
FilterAndValidate(at, target, filtered, validated, next) ==
    /\ mpc = at
    /\ collections' = [collections EXCEPT ![target] = filtered]
    /\ IF Validate(validated) # "ok"
         THEN Raise(Validate(validated))
         ELSE mpc' = next /\ UNCHANGED error
    /\ UNCHANGED margs

\* analyse.py:208-212.
FilterInvalid ==
    FilterAndValidate("filter_invalid", "datasets_invalid",
        RemoveFailing(collections.datasets_initial, "structure_factors"),
        RemoveFailing(collections.datasets_initial, "structure_factors"),
        "filter_low_res")

\* analyse.py:214-218.
FilterLowRes ==
    FilterAndValidate("filter_low_res", "datasets_low_res",
        RemoveFailing(collections.datasets_invalid, "low_resolution"),
        RemoveFailing(collections.datasets_invalid, "low_resolution"),
        "filter_rfree")

\* analyse.py:220-223.
FilterRFree ==
    FilterAndValidate("filter_rfree", "datasets_rfree",
        RemoveFailing(collections.datasets_low_res, "rfree"),
        RemoveFailing(collections.datasets_low_res, "rfree"),
        "filter_wilson")

\* analyse.py:225-229.
FilterWilson ==
    FilterAndValidate("filter_wilson", "datasets_wilson",
        RemoveBadWilson(collections.datasets_rfree),
        RemoveBadWilson(collections.datasets_rfree),
        "smooth")

\* analyse.py:233-245: the reference is chosen and the datasets are smoothed.
Smooth ==
    /\ mpc = "smooth"
    /\ collections' = [collections EXCEPT
                         !.datasets_smoother = SmoothDatasets(collections.datasets_wilson)]
    /\ mpc' = "filter_structure"
    /\ UNCHANGED <<margs, error>>

\* analyse.py:248-253.
FilterStructure ==
    FilterAndValidate("filter_structure", "datasets_diss_struc",
        RemoveFailing(collections.datasets_smoother, "rmsd"),
        RemoveFailing(collections.datasets_smoother, "rmsd"),
        "filter_gaps")

\* analyse.py:256-262: the gap filter is applied to datasets_smoother.
FilterGaps ==
    FilterAndValidate("filter_gaps", "datasets_gaps",
        RemoveFailing(collections.datasets_smoother, "gaps"),
        RemoveFailing(collections.datasets_smoother, "gaps"),
        "filter_space")

\* analyse.py:265-270: the last filter; its result is `datasets`.
FilterSpaceGroup ==
    /\ mpc = "filter_space"
    /\ LET kept == RemoveFailing(collections.datasets_gaps, "space_group") IN
         /\ collections' = [collections EXCEPT !.datasets_diss_space = kept,
                                               !.datasets = IF Validate(kept) = "ok"
                                                              THEN kept ELSE @]
         /\ IF Validate(kept) # "ok"
              THEN Raise(Validate(kept))
              ELSE mpc' = "comparators" /\ UNCHANGED error
    /\ UNCHANGED margs

\* analyse.py:274-325: grid and alignments, then the comparators.
AssignComparators ==
    /\ mpc = "comparators"
    /\ IF Comparators(comparison_strategy) # "ok"
         THEN Raise(Comparators(comparison_strategy))
         ELSE mpc' = "get_shells" /\ UNCHANGED error
    /\ UNCHANGED <<margs, collections>>

\* analyse.py:338-343: the shells are formed; main goes on to process them.
GetShells ==
    /\ mpc = "get_shells"
    /\ mpc' = "process"
    /\ UNCHANGED <<margs, error, collections>>

InitMain == MInit /\ PIdle /\ RIdle /\ SIdle /\ CIdle /\ EIdle /\ YIdle

NextMain ==
    \/ SelectProcessors /\ UNCHANGED <<pvars, rvars, xvars, yvars>>
    \/ LoadDatasets /\ UNCHANGED <<pvars, rvars, xvars, yvars>>
    \/ FilterInvalid /\ UNCHANGED <<pvars, rvars, xvars, yvars>>
    \/ FilterLowRes /\ UNCHANGED <<pvars, rvars, xvars, yvars>>
    \/ FilterRFree /\ UNCHANGED <<pvars, rvars, xvars, yvars>>
    \/ FilterWilson /\ UNCHANGED <<pvars, rvars, xvars, yvars>>
    \/ Smooth /\ UNCHANGED <<pvars, rvars, xvars, yvars>>
    \/ FilterStructure /\ UNCHANGED <<pvars, rvars, xvars, yvars>>
    \/ FilterGaps /\ UNCHANGED <<pvars, rvars, xvars, yvars>>
    \/ FilterSpaceGroup /\ UNCHANGED <<pvars, rvars, xvars, yvars>>
    \/ AssignComparators /\ UNCHANGED <<pvars, rvars, xvars, yvars>>
    \/ GetShells /\ UNCHANGED <<pvars, rvars, xvars, yvars>>

SpecMain == InitMain /\ [][NextMain]_vars

\* ------------------------------------------- main: processing the shells
\* The least number of usable training datasets a background model can be
\* fitted from.
MinTrainingDatasets == 2

\* get_shells: every dataset is a test member of exactly one shell, shells are
\* numbered from 1 and each takes a run of consecutive dtags.
ShellPartitions(n) ==
    {f \in UNION {[1..k -> SUBSET (1..n)] : k \in 1..n} :
        /\ \A i \in DOMAIN f : f[i] # {}
        /\ UNION {f[i] : i \in DOMAIN f} = 1..n
        /\ \A i, j \in DOMAIN f : i < j => \A a \in f[i], b \in f[j] : a < b}

ShellNumbers == DOMAIN run_shells

\* EventID(dtag, event_idx)
EventID(d, i) == <<d, i>>

\* shell.all_dtags: the test and the training datasets of the shell; the xmaps
\* are made of all of them (analyse.py:351-373).
AllDtags(sn) == run_shells[sn] \cup run_train

\* Mutant of ZmapDtags: the Z-maps are made from xmaps, not shell_test_xmaps.
ZmapDtagsOfAllXmaps(sn) == AllDtags(sn)

\* Zmaps.from_xmaps(model, shell_test_xmaps), with shell_test_xmaps =
\* xmaps.from_dtags(shell.test_dtags): the dtags that get a Z-map.
ZmapDtags(sn) == run_shells[sn]

\* Model.mean_from_xmap_array(masked_train_xmap_array)
MeanDtags(sn) == run_train

\* Mutant of SigmaIsDtags: sigma_i is fitted from masked_train_xmap_array.
SigmaIsDtagsOfTrain(sn) == run_train

\* Model.sigma_is_from_xmap_array(masked_xmap_array, mean_array, 1.5): one
\* sigma_i per xmap.
SigmaIsDtags(sn) == AllDtags(sn)

\* Model.sigma_sms_from_xmaps(masked_train_xmap_array, mean_array, sigma_is)
SigmaSmsDtags(sn) == run_train

\* Model.from_mean_is_sms(mean_array, sigma_is, sigma_s_m, grid): the model,
\* here the datasets each of its parts was fitted from.
ShellModel(sn) ==
    [mean_from |-> MeanDtags(sn), sigma_is |-> SigmaIsDtags(sn),
     sigma_s_m_from |-> SigmaSmsDtags(sn)]

NoModel == [mean_from |-> {}, sigma_is |-> {}, sigma_s_m_from |-> {}]

\* Events.from_clusters over the Z-maps of the shell's test datasets: one
\* event per surviving cluster, keyed by EventID.
ShellEvents(sn) ==
    [k \in {e \in {EventID(d, i) : d \in ZmapDtags(sn), i \in 1..MaxEvents} :
                e[2] <= n_events[e[1]]}
       |-> [dtag |-> k[1], event_idx |-> k[2], shell |-> sn]]

\* Mutant of AddEvents: all_events is rebound to the shell's events.
AddEventsRebinds(all, events) == events

\* for event_id in events: all_events[event_id] = events[event_id]
AddEvents(all, events) == events @@ all

\* Model fitting fails with InsufficientTrainingDataError below the minimum
\* of usable training datasets.
FitFails(sn) == usable_train[sn] < MinTrainingDatasets

\* Events.from_all_events and EventTable.from_events: one row per event.
EventTableRows(all) == {all[k] : k \in DOMAIN all}

\* SiteTable.from_events: built from the same events.
SiteTableMembers(all) == DOMAIN all

RInit ==
    /\ \E n \in 1..MaxProcDatasets :
         /\ run_shells \in ShellPartitions(n)
         /\ n_events \in [1..n -> 0..MaxEvents]
         /\ run_train \in SUBSET (1..n)
    /\ usable_train \in [DOMAIN run_shells ->
                            0..Min2(MaxUsableTrain, Cardinality(run_train))]
    /\ shell_state = [sn \in DOMAIN run_shells |-> "pending"]
    /\ shells_log = {}
    /\ all_events = <<>>
    /\ shell_results = [sn \in DOMAIN run_shells |-> "unset"]
    /\ event_table = {}
    /\ site_table = {}
    /\ zmaps = [sn \in DOMAIN run_shells |-> {}]
    /\ models = [sn \in DOMAIN run_shells |-> NoModel]

\* main has come to line 346 with this call's arguments.
MAtProcess ==
    /\ local_processing = "joblib"
    /\ global_processing = "serial"
    /\ comparison_strategy = "high_res_random"
    /\ validator_min_datasets = 1
    /\ fails = [d \in {} |-> "none"]
    /\ mpc = "process"
    /\ error = "none"
    /\ collections = [n \in CollectionNames |-> {}]

rinputs == <<run_shells, usable_train, n_events, run_train>>

\* processer_global calls process_shell(shell); analyse.py:347-348, the entry
\* of the shell in the shared log.
CallProcessShell(sn) ==
    /\ mpc = "process"
    /\ shell_state[sn] = "pending"
    /\ shell_state' = [shell_state EXCEPT ![sn] = "running"]
    /\ shells_log' = shells_log \cup {sn}
    /\ UNCHANGED <<rinputs, all_events, shell_results, event_table, site_table, zmaps,
                   models>>

\* processer_global, when process_shell raises: the failure is recorded for
\* that shell and the other shells are not affected.
RecordFailure(sn, e) ==
    /\ shell_state' = [shell_state EXCEPT ![sn] = "failed"]
    /\ shell_results' = [shell_results EXCEPT ![sn] = e]

\* Mutant of FitModel: the events are added to all_events before the model is
\* fitted.
FitModelAfterAdding(sn) ==
    /\ mpc = "process"
    /\ shell_state[sn] = "running"
    /\ all_events' = AddEvents(all_events, ShellEvents(sn))
    /\ IF FitFails(sn)
         THEN RecordFailure(sn, "InsufficientTrainingDataError")
         ELSE /\ shell_state' = [shell_state EXCEPT ![sn] = "fitted"]
              /\ UNCHANGED shell_results
    /\ models' = [models EXCEPT ![sn] = IF FitFails(sn) THEN @ ELSE ShellModel(sn)]
    /\ UNCHANGED <<rinputs, shells_log, event_table, site_table, zmaps>>

\* Mutant of FitModel: the fit goes through on any number of training datasets.
FitModelOnAnyTraining(sn) ==
    /\ mpc = "process"
    /\ shell_state[sn] = "running"
    /\ shell_state' = [shell_state EXCEPT ![sn] = "fitted"]
    /\ models' = [models EXCEPT ![sn] = ShellModel(sn)]
    /\ UNCHANGED <<rinputs, shells_log, all_events, shell_results, event_table,
                   site_table, zmaps>>

\* analyse.py:351-417: the datasets are truncated, the maps loaded and the
\* model fitted.  Nothing in process_shell catches an exception, so a failing
\* fit leaves process_shell here, before any event is computed.
FitModel(sn) ==
    /\ mpc = "process"
    /\ shell_state[sn] = "running"
    /\ IF FitFails(sn)
         THEN RecordFailure(sn, "InsufficientTrainingDataError")
         ELSE /\ shell_state' = [shell_state EXCEPT ![sn] = "fitted"]
              /\ UNCHANGED shell_results
    /\ models' = [models EXCEPT ![sn] = IF FitFails(sn) THEN @ ELSE ShellModel(sn)]
    /\ UNCHANGED <<rinputs, shells_log, all_events, event_table, site_table, zmaps>>

\* analyse.py:421-502: Z-maps, clusters and events of the test datasets, then
\* every event is put into all_events; process_shell has no return statement.
FindEvents(sn) ==
    /\ mpc = "process"
    /\ shell_state[sn] = "fitted"
    /\ all_events' = AddEvents(all_events, ShellEvents(sn))
    /\ shell_state' = [shell_state EXCEPT ![sn] = "returned"]
    /\ shell_results' = [shell_results EXCEPT ![sn] = "None"]
    /\ zmaps' = [zmaps EXCEPT ![sn] = ZmapDtags(sn)]
    /\ UNCHANGED <<rinputs, shells_log, event_table, site_table, models>>

\* analyse.py:505-521: processer_global has gone through every shell; the
\* tables are built from all_events.
Aggregate ==
    /\ mpc = "process"
    /\ \A sn \in ShellNumbers : shell_state[sn] \in {"returned", "failed"}
    /\ event_table' = EventTableRows(all_events)
    /\ site_table' = SiteTableMembers(all_events)
    /\ mpc' = "done"
    /\ UNCHANGED <<rinputs, shell_state, shells_log, all_events, shell_results, zmaps,
                   models>>

InitProcess == RInit /\ MAtProcess /\ PIdle /\ SIdle /\ CIdle /\ EIdle /\ YIdle

NextProcess ==
    \/ \E sn \in ShellNumbers : CallProcessShell(sn) /\ UNCHANGED <<pvars, mvars, xvars, yvars>>
    \/ \E sn \in ShellNumbers : FitModel(sn) /\ UNCHANGED <<pvars, mvars, xvars, yvars>>
    \/ \E sn \in ShellNumbers : FindEvents(sn) /\ UNCHANGED <<pvars, mvars, xvars, yvars>>
    \/ Aggregate /\ UNCHANGED <<pvars, margs, error, collections, xvars, yvars>>

SpecProcess == InitProcess /\ [][NextProcess]_vars

\* One shell followed through process_shell: the datasets are numbered in
\* ascending resolution, the shell tests a run of them and the training
\* datasets are the finest k, so that a test dataset need not be a training
\* dataset.
RInitOneShell ==
    /\ \E n \in 1..MaxFitDatasets :
         /\ \E a \in 1..n : run_shells = <<a..n>>
         /\ \E k \in 0..n : run_train = 1..k
         /\ n_events \in [1..n -> 0..MaxEvents]
    /\ usable_train \in [DOMAIN run_shells ->
                            0..Min2(MaxUsableTrain, Cardinality(run_train))]
    /\ shell_state = [sn \in DOMAIN run_shells |-> "pending"]
    /\ shells_log = {}
    /\ all_events = <<>>
    /\ shell_results = [sn \in DOMAIN run_shells |-> "unset"]
    /\ event_table = {}
    /\ site_table = {}
    /\ zmaps = [sn \in DOMAIN run_shells |-> {}]
    /\ models = [sn \in DOMAIN run_shells |-> NoModel]

InitShell == RInitOneShell /\ MAtProcess /\ PIdle /\ SIdle /\ CIdle /\ EIdle /\ YIdle

SpecShell == InitShell /\ [][NextProcess]_vars

\* ------------------------------------------------ main: the site aggregation
\* analyse.py:512-515: Events.from_all_events(all_events, grid, 1.7) and
\* SiteTable.from_events(all_events_events, 1.7).  The cutoff of 1.7 Angstrom,
\* in tenths of an Angstrom.
SiteCutoffTenths == 17

\* The events of the aggregation come from these datasets.
SiteEventDtags == {1, 2}

Abs(a) == IF a < 0 THEN -a ELSE a

\* Two events whose centroids lie within the site merge distance.
WithinCutoff(a, b) == 10 * Abs(a.x - b.x) <= SiteCutoffTenths

\* Mutant of MergeInto: the event joins one of the sites near it and the
\* others stay apart.
MergeIntoFirstOnly(ss, k) ==
    LET near == {st \in ss : \E j \in st : WithinCutoff(events_in[j], events_in[k])}
    IN  IF near = {}
          THEN ss \cup {{k}}
          ELSE LET st == CHOOSE t \in near :
                             \A u \in near : \E a \in t : \A b \in u : a <= b
               IN  (ss \ {st}) \cup {st \cup {k}}

\* Mutant of MergeInto: every event opens a site of its own.
MergeIntoNewSite(ss, k) == ss \cup {{k}}

\* The union-find step: event k is united with every site that holds an event
\* within the cutoff of it.
MergeInto(ss, k) ==
    LET near == {st \in ss : \E j \in st : WithinCutoff(events_in[j], events_in[k])}
    IN  (ss \ near) \cup {UNION near \cup {k}}

\* The sites of the first n events, taken up in the order of events_in.
RECURSIVE SitesInOrder(_)
SitesInOrder(n) == IF n = 0 THEN {} ELSE MergeInto(SitesInOrder(n - 1), n)

\* The site table: one row per site, with its member events and their count.
SiteRows(ss) == {[members |-> st, member_count |-> Cardinality(st)] : st \in ss}

Unassigned == (1..Len(events_in)) \ Range(site_order)

SInit ==
    /\ \E n \in 0..MaxSiteEvents :
         events_in \in [1..n -> [dtag : SiteEventDtags, x : 0..MaxSitePos]]
    /\ site_order = <<>>
    /\ sites = {}
    /\ site_rows = {}
    /\ spc = "sites"

\* The aggregation takes up one more event, in whatever order the events
\* reach it.
AssignSite(k) ==
    /\ spc = "sites"
    /\ k \in Unassigned
    /\ sites' = MergeInto(sites, k)
    /\ site_order' = Append(site_order, k)
    /\ UNCHANGED <<events_in, site_rows, spc>>

\* analyse.py:515-517: every event has its site; the table is written.
SitesDone ==
    /\ spc = "sites"
    /\ Unassigned = {}
    /\ site_rows' = SiteRows(sites)
    /\ spc' = "done"
    /\ UNCHANGED <<events_in, site_order, sites>>

InitSites == SInit /\ PIdle /\ MIdle /\ RIdle /\ CIdle /\ EIdle /\ YIdle

NextSites ==
    \/ \E k \in 1..MaxSiteEvents : AssignSite(k) /\ UNCHANGED <<pvars, mvars, rvars, cvars, evars, yvars>>
    \/ SitesDone /\ UNCHANGED <<pvars, mvars, rvars, cvars, evars, yvars>>

SpecSites == InitSites /\ [][NextSites]_vars

\* ------------------------------------- process_shell: the clusters of a shell
\* A cluster is [number, pos, volume, peak]: its ClusterID number, its centroid
\* on a line, its volume in voxel volumes of the grid and its peak |z|.  A
\* merged cluster is [members, volume, peak], members being the numbers of the
\* clusters united in it.
ClusterValues == [pos : 0..MaxClusterPos, volume : 1..MaxVolume, peak : 1..MaxPeak]

\* Clusterings.filter_size(grid, min_volume): clusters below the volume go.
FilterSize(cs, min_volume) == {c \in cs : c.volume >= min_volume}

\* Clusterings.filter_peak(grid, z_peak): clusters below the peak go.
FilterPeak(cs, z_peak) == {c \in cs : c.peak >= z_peak}

\* Two clusters whose centroids are within the cluster cutoff distance.
CloseClusters(c, d) == Abs(c.pos - d.pos) <= 1

\* The clusters of cs linked to those of g through close centroids.
RECURSIVE Linked(_, _)
Linked(g, cs) ==
    LET more == g \cup {c \in cs : \E d \in g : CloseClusters(c, d)}
    IN  IF more = g THEN g ELSE Linked(more, cs)

RECURSIVE SumVolume(_)
SumVolume(g) ==
    IF g = {} THEN 0
    ELSE LET c == CHOOSE c \in g : TRUE IN c.volume + SumVolume(g \ {c})

\* Clusterings.merge_clusters(): linked clusters become one cluster, with the
\* voxels of all of them and the highest of their peaks.
MergeClusters(cs) ==
    {[members |-> {c.number : c \in g},
      volume |-> SumVolume(g),
      peak |-> CHOOSE z \in {c.peak : c \in g} : \A c \in g : c.peak <= z] : g \in {Linked({c}, cs) : c \in cs}}

\* Mutant of ClusteringsLarge: the peak threshold is handed to the volume filter.
ClusteringsLargeByPeak == FilterSize(clusterings, min_blob_z_peak)

\* analyse.py:455-457
ClusteringsLarge == FilterSize(clusterings, min_blob_volume)

\* analyse.py:462-463
ClusteringsPeaked == FilterPeak(clusterings_large, min_blob_z_peak)

\* Mutant of ClusteringsMerged: the merge takes the clusters the volume filter
\* left, not those the peak filter left.
ClusteringsMergedFromLarge == MergeClusters(clusterings_large)

\* analyse.py:467
ClusteringsMerged == MergeClusters(clusterings_peaked)

\* analyse.py:447-450: the clusters of the shell's Z-maps.
CInit ==
    /\ min_blob_volume \in 1..MaxVolume
    /\ min_blob_z_peak \in 1..MaxPeak
    /\ \E n \in 0..MaxClusters :
         \E f \in [1..n -> ClusterValues] :
             clusterings = {[number |-> k, pos |-> f[k].pos, volume |-> f[k].volume,
                             peak |-> f[k].peak] : k \in 1..n}
    /\ clusterings_large = {}
    /\ clusterings_peaked = {}
    /\ clusterings_merged = {}
    /\ cluster_events = {}
    /\ cpc = "clustered"

\* analyse.py:454-459
FilterOutSmall ==
    /\ cpc = "clustered"
    /\ clusterings_large' = ClusteringsLarge
    /\ cpc' = "large"
    /\ UNCHANGED <<min_blob_volume, min_blob_z_peak, clusterings, clusterings_peaked,
                   clusterings_merged, cluster_events>>

\* analyse.py:461-465
FilterOutWeak ==
    /\ cpc = "large"
    /\ clusterings_peaked' = ClusteringsPeaked
    /\ cpc' = "peaked"
    /\ UNCHANGED <<min_blob_volume, min_blob_z_peak, clusterings, clusterings_large,
                   clusterings_merged, cluster_events>>

\* analyse.py:467-469
Merge ==
    /\ cpc = "peaked"
    /\ clusterings_merged' = ClusteringsMerged
    /\ cpc' = "merged"
    /\ UNCHANGED <<min_blob_volume, min_blob_z_peak, clusterings, clusterings_large,
                   clusterings_peaked, cluster_events>>

\* analyse.py:474: one event per merged cluster.
GetEvents ==
    /\ cpc = "merged"
    /\ cluster_events' = clusterings_merged
    /\ cpc' = "events"
    /\ UNCHANGED <<min_blob_volume, min_blob_z_peak, clusterings, clusterings_large,
                   clusterings_peaked, clusterings_merged>>

InitClusters == CInit /\ PIdle /\ MIdle /\ RIdle /\ SIdle /\ EIdle /\ YIdle

NextClusters ==
    \/ FilterOutSmall /\ UNCHANGED <<pvars, mvars, rvars, svars, evars, yvars>>
    \/ FilterOutWeak /\ UNCHANGED <<pvars, mvars, rvars, svars, evars, yvars>>
    \/ Merge /\ UNCHANGED <<pvars, mvars, rvars, svars, evars, yvars>>
    \/ GetEvents /\ UNCHANGED <<pvars, mvars, rvars, svars, evars, yvars>>

SpecClusters == InitClusters /\ [][NextClusters]_vars

\* ------------------------------- process_shell: events and their BDC values
\* BDC values are integers: one unit is one step of the BDC scale.
\* The candidates of a scan from lo to hi.
Candidates(lo, hi) == lo..hi

\* Mutant of BDCFromCluster: a degenerate region ends the estimate with an
\* exception.
BDCFromClusterRaising(degenerate, lo, hi, score) ==
    IF degenerate
      THEN [raised |-> TRUE, bdc |-> 0]
      ELSE [raised |-> FALSE,
            bdc |-> CHOOSE b \in Candidates(lo, hi) :
                        \A c \in Candidates(lo, hi) :
                            score[b] < score[c] \/ (score[b] = score[c] /\ b <= c)]

\* The BDC of one cluster: 0 when the region around the cluster is degenerate,
\* else the candidate of the least score, the smallest of them on a tie.
\* `raised` tells whether the estimate ended with DegenerateClusterError.
BDCFromCluster(degenerate, lo, hi, score) ==
    IF degenerate
      THEN [raised |-> FALSE, bdc |-> 0]
      ELSE [raised |-> FALSE,
            bdc |-> CHOOSE b \in Candidates(lo, hi) :
                        \A c \in Candidates(lo, hi) :
                            score[b] < score[c] \/ (score[b] = score[c] /\ b <= c)]

\* analyse.py:474: Events.from_clusters(clusterings_merged, model, xmaps, grid,
\* 1.732, mapper) is handed nothing of config.params.background_correction, so
\* the range it scans is its own.
EInit ==
    /\ min_bdc \in 0..MaxBdc
    /\ max_bdc \in min_bdc..MaxBdc
    /\ increment \in 1..MaxBdc
    /\ \E lo \in 0..MaxBdc : \E hi \in lo..MaxBdc : bdc_scan = [min |-> lo, max |-> hi]
    /\ \E n \in 0..MaxEventClusters : merged_in \in [1..n -> BOOLEAN]
    /\ shell_events = <<>>
    /\ epc = "events"

\* Events.from_clusters makes the event of the next merged cluster.
EventFromCluster ==
    /\ epc = "events"
    /\ Len(shell_events) < Len(merged_in)
    /\ \E score \in [Candidates(bdc_scan.min, bdc_scan.max) -> 0..1] :
         LET k == Len(shell_events) + 1
             est == BDCFromCluster(merged_in[k], bdc_scan.min, bdc_scan.max, score)
         IN  IF est.raised
               THEN epc' = "failed" /\ UNCHANGED shell_events
               ELSE /\ shell_events' = Append(shell_events, [cluster |-> k, bdc |-> est.bdc])
                    /\ UNCHANGED epc
    /\ UNCHANGED <<min_bdc, max_bdc, increment, bdc_scan, merged_in>>

\* analyse.py:474-476: Events.from_clusters returns the events.
EventsReturned ==
    /\ epc = "events"
    /\ Len(shell_events) = Len(merged_in)
    /\ epc' = "returned"
    /\ UNCHANGED <<min_bdc, max_bdc, increment, bdc_scan, merged_in, shell_events>>

InitEvents == EInit /\ PIdle /\ MIdle /\ RIdle /\ SIdle /\ CIdle /\ YIdle

NextEvents ==
    \/ EventFromCluster /\ UNCHANGED <<pvars, mvars, rvars, svars, cvars, yvars>>
    \/ EventsReturned /\ UNCHANGED <<pvars, mvars, rvars, svars, cvars, yvars>>

SpecEvents == InitEvents /\ [][NextEvents]_vars

\* ------------------- Datasets.remove_incomplete_up_to_resolution_datasets
\* Python values that the call passes on carry their class: a str has no
\* attribute f, a StructureFactors has the attributes f and phi.
Str(v) == [type |-> "str", val |-> v]

ColumnLabels == {"FWT", "2FOFCWT"}

StructureFactorsOf(f, phi) == [type |-> "StructureFactors", f |-> Str(f), phi |-> Str(phi)]

IncDtags == DOMAIN inc_datasets

\* Reflections.missing: the rows of d-spacing >= resolution.to_float() whose
\* amplitude column, named by structure_factors.f, is 0.  Reading .f of a value
\* that is not a StructureFactors raises AttributeError.
Missing(sf, dtag, res) ==
    IF sf.type # "StructureFactors"
    THEN [raised |-> TRUE, rows |-> {}]
    ELSE [raised |-> FALSE, rows |-> {x \in inc_datasets[dtag] : x >= res}]

\* The lambda of the filter: it hands structure_factors.f, not structure_factors,
\* to Reflections.missing, and keeps a dtag when len(missing) > 0.
KeepDataset(dtag) ==
    LET m == Missing(structure_factors.f, dtag, inc_resolution)
    IN [raised |-> m.raised, keep |-> Cardinality(m.rows) > 0]

\* The datasets with no reflection of amplitude 0 at d-spacing >= resolution.
CompleteDtags == {d \in IncDtags : {x \in inc_datasets[d] : x >= inc_resolution} = {}}

IInit ==
    /\ \E n \in 0..MaxIncDatasets : inc_datasets \in [1..n -> SUBSET (1..MaxRes)]
    /\ inc_resolution \in 1..MaxRes
    /\ \E f \in ColumnLabels : structure_factors = StructureFactorsOf(f, "PHWT")
    /\ inc_idx = 1
    /\ new_datasets = {}
    /\ ipc = "filter"

\* One step of the dict comprehension over the lazy filter: the lambda is
\* evaluated for the next dtag of self.datasets.
FilterDtag ==
    /\ ipc = "filter"
    /\ inc_idx \in IncDtags
    /\ LET k == KeepDataset(inc_idx)
       IN IF k.raised
          THEN /\ ipc' = "AttributeError"
               /\ UNCHANGED <<inc_idx, new_datasets>>
          ELSE /\ new_datasets' = IF k.keep THEN new_datasets \cup {inc_idx} ELSE new_datasets
               /\ inc_idx' = inc_idx + 1
               /\ ipc' = "filter"
    /\ UNCHANGED <<inc_datasets, inc_resolution, structure_factors>>

\* return Datasets(new_datasets)
ReturnDatasets ==
    /\ ipc = "filter"
    /\ inc_idx \notin IncDtags
    /\ ipc' = "returned"
    /\ UNCHANGED <<inc_datasets, inc_resolution, structure_factors, inc_idx, new_datasets>>

InitIncomplete == IInit /\ AIdle /\ PIdle /\ MIdle /\ RIdle /\ SIdle /\ CIdle /\ EIdle

NextIncomplete ==
    \/ FilterDtag /\ UNCHANGED <<pvars, mvars, rvars, xvars, avars>>
    \/ ReturnDatasets /\ UNCHANGED <<pvars, mvars, rvars, xvars, avars>>

SpecIncomplete == InitIncomplete /\ [][NextIncomplete]_vars

\* ------------------------------------------------- Alignment.from_dataset
\* The structure has one model; chain c has the polymer residues 1..chains[c],
\* numbered by seqid.num.  None is the residue 0.
NoResidue == 0

ChainNumbers == DOMAIN chains

\* chain.previous_residue(res), chain.next_residue(res)
PreviousResidue(c, r) == IF r = 1 THEN NoResidue ELSE r - 1

NextResidue(c, r) == IF r = chains[c] THEN NoResidue ELSE r + 1

\* ResidueID.from_residue_chain reads res.seqid.num: AttributeError on None.
ResidueIDFromResidueChain(c, r) ==
    IF r = NoResidue
    THEN [raised |-> TRUE, id |-> <<c, 0>>]
    ELSE [raised |-> FALSE, id |-> <<c, r>>]

\* The key the transform is stored under: current_res_id is computed from
\* prev_res.
CurrentResID(c, r) == ResidueIDFromResidueChain(c, PreviousResidue(c, r))

\* The constructor whose result is bound to `transform` when the two
\* conditionals are left: the second is an if/else of its own, so its
\* branches overwrite what the first assigned.
TransformKind(c, r) ==
    IF NextResidue(c, r) = NoResidue THEN "from_finish_residues" ELSE "from_residues"

AInit ==
    /\ \E n \in 0..MaxChains : chains \in [1..n -> 0..MaxChainLen]
    /\ chain_idx = 1
    /\ res_idx = 1
    /\ transforms = <<>>
    /\ apc = "loop"

\* One iteration of `for res in chain.get_polymer()`.
AlignResidue ==
    /\ apc = "loop"
    /\ chain_idx \in ChainNumbers
    /\ res_idx <= chains[chain_idx]
    /\ LET cur == CurrentResID(chain_idx, res_idx)
       IN IF cur.raised
          THEN /\ apc' = "AttributeError"
               /\ UNCHANGED <<res_idx, transforms>>
          ELSE /\ transforms' = [x \in DOMAIN transforms \cup {cur.id} |->
                                   IF x = cur.id THEN TransformKind(chain_idx, res_idx)
                                   ELSE transforms[x]]
               /\ res_idx' = res_idx + 1
               /\ apc' = "loop"
    /\ UNCHANGED <<chains, chain_idx>>

\* The polymer of the chain is exhausted: `for chain in model` goes on.
NextChain ==
    /\ apc = "loop"
    /\ chain_idx \in ChainNumbers
    /\ res_idx > chains[chain_idx]
    /\ chain_idx' = chain_idx + 1
    /\ res_idx' = 1
    /\ UNCHANGED <<chains, transforms, apc>>

\* return Alignment(transforms)
AlignReturn ==
    /\ apc = "loop"
    /\ chain_idx \notin ChainNumbers
    /\ apc' = "returned"
    /\ UNCHANGED <<chains, chain_idx, res_idx, transforms>>

InitAlign == AInit /\ IIdle /\ PIdle /\ MIdle /\ RIdle /\ SIdle /\ CIdle /\ EIdle

NextAlign ==
    \/ AlignResidue /\ UNCHANGED <<pvars, mvars, rvars, xvars, ivars>>
    \/ NextChain /\ UNCHANGED <<pvars, mvars, rvars, xvars, ivars>>
    \/ AlignReturn /\ UNCHANGED <<pvars, mvars, rvars, xvars, ivars>>

SpecAlign == InitAlign /\ [][NextAlign]_vars

\* ---------------------------------------------------------------- claims
\* Every Shell object the call has built: the entries of `shells` and the one
\* constructed last.
BuiltShells == Range(shells) \cup (IF shell = NoShell THEN {} ELSE {shell})

TestRes(s) == {resolution[d] : d \in Range(s.test_dtags)}

SetMax(S) == CHOOSE x \in S : \A y \in S : y <= x

SetMin(S) == CHOOSE x \in S : \A y \in S : x <= y

\* Position of dtag d in sorted_dtags.
PosInSorted(d) == CHOOSE k \in DOMAIN sorted_dtags : sorted_dtags[k] = d

Finished == pc \in {"returned", "raised"}

\* The datasets that pass every pre-processing filter.
ValidDatasets == {d \in DOMAIN fails : fails[d] = "none"}

\* main has formed the shells, or is about to with nothing left to stop it
\* but the comparators.
PastFilters == mpc \in {"comparators", "get_shells", "process"}

\* C1 (as claimed): for a non-empty collection the call completes and returns
\* a sequence of shells in which every input dataset is a test member of exactly
\* one shell.
C1_ReturnsCoveringShells ==
    (Finished /\ datasets # <<>>) =>
        /\ pc = "returned"
        /\ result = "Shells"
        /\ \A d \in Range(datasets) :
             Cardinality({k \in DOMAIN shells : d \in Range(shells[k].test_dtags)}) = 1

\* C2 (as claimed): when the walk ends, the datasets accumulated since the last
\* close are emitted as a final shell; no dataset is dropped.
C2_FinalShellEmitted ==
    pc = "returned" =>
        \A d \in Range(shell_dtags) :
            \E k \in DOMAIN shells : d \in Range(shells[k].test_dtags)

\* C3 (as claimed): the training pool is the min_characterisation_datasets
\* datasets with the largest resolution values (the coarsest).
C3_TrainIsCoarsest ==
    (pc # "start" /\ Len(datasets) >= min_characterisation_datasets) =>
        /\ Len(train_dtags) = min_characterisation_datasets
        /\ \A t \in Range(train_dtags) :
             \A o \in Range(datasets) \ Range(train_dtags) :
                 resolution[t] >= resolution[o]

\* C3 (amended): the training pool, the one every constructed shell carries, is
\* the first min_characterisation_datasets datasets of the ascending order (all
\* of them when there are fewer): the smallest resolution values, the finest.
C3_TrainIsFinest ==
    pc # "start" =>
        /\ Len(train_dtags) = Min2(min_characterisation_datasets, Len(datasets))
        /\ \A k \in DOMAIN train_dtags : train_dtags[k] = sorted_dtags[k]
        /\ \A t \in Range(train_dtags) :
             \A o \in Range(datasets) \ Range(train_dtags) :
                 resolution[t] <= resolution[o]
        /\ \A s \in BuiltShells : s.train_dtags = train_dtags

\* C3 witness: a shell was built with a pool that leaves out a strictly coarser
\* dataset.
C3_Witness ==
    /\ shell # NoShell
    /\ Len(shell.train_dtags) = min_characterisation_datasets
    /\ \E t \in Range(shell.train_dtags) :
         \E o \in Range(datasets) \ Range(shell.train_dtags) :
             resolution[t] < resolution[o]

\* C4 (as claimed): with fewer than min_characterisation_datasets valid
\* datasets the run ends in InsufficientDataError during the filtering, and no
\* shell is formed or processed.
C4_TooFewIsFatal ==
    Cardinality(ValidDatasets) < validator_min_datasets =>
        /\ ~PastFilters
        /\ (mpc = "raised" /\ collections.datasets_initial # {}) =>
               error = "InsufficientDataError"

\* The shell a dtag is a test member of.
ShellOf(d) == CHOOSE sn \in ShellNumbers : d \in run_shells[sn]

\* The shells that have put an entry into all_events.
EventWriters == {all_events[k].shell : k \in DOMAIN all_events}

C7_NoSharedMutableState ==
    /\ \A sn \in ShellNumbers :
         shell_state[sn] = "returned" => shell_results[sn] = "Events"
    /\ Cardinality(EventWriters) <= 1
    /\ Cardinality(shells_log) <= 1

\* C8: in every shell, built or still accumulating, no test member lies more
\* than high_res_increment above the shell's first member; a dataset that would
\* exceed the span closes the shell instead of joining it.
C8_SpanWithinIncrement ==
    /\ \A s \in BuiltShells : \A k \in DOMAIN s.test_dtags :
         resolution[s.test_dtags[k]] - resolution[s.test_dtags[1]] <= high_res_increment
    /\ \A k \in DOMAIN shell_dtags :
         resolution[shell_dtags[k]] - resolution[shell_dtags[1]] <= high_res_increment

\* C8 witness: a shell with members of different resolution was closed by a
\* dataset beyond the span although the count allowed one more.
C8_Witness ==
    /\ shell # NoShell
    /\ Cardinality(TestRes(shell)) >= 2
    /\ Len(shell.test_dtags) <= max_shell_datasets
    /\ shell.res_min - shell.res_max > high_res_increment

\* C9: every test member's resolution is at most the res_min recorded on its
\* shell.
C9_TestWithinResMin ==
    \A s \in BuiltShells : \A d \in Range(s.test_dtags) : resolution[d] <= s.res_min

\* C9 witness: a built shell with members of two resolutions.
C9_Witness ==
    /\ shell # NoShell
    /\ Cardinality(TestRes(shell)) >= 2

\* C10 (as claimed): the two bounds are exactly the smallest and the largest
\* resolution among the shell's own test members.
C10_BoundsAreMemberExtremes ==
    \A s \in BuiltShells :
        s.test_dtags # <<>> =>
            /\ s.res_max = SetMin(TestRes(s))
            /\ s.res_min = SetMax(TestRes(s))

\* C10 (amended): res_max is the smallest resolution among the test members;
\* res_min is the resolution of the dataset that closed the shell, the one that
\* follows the last member in the ascending order, which is no member and is
\* at least as large as every member's.
C10_BoundsEnclose ==
    \A s \in BuiltShells :
        s.test_dtags # <<>> =>
            LET last == PosInSorted(s.test_dtags[Len(s.test_dtags)]) IN
            /\ s.res_max = SetMin(TestRes(s))
            /\ last < Len(sorted_dtags)
            /\ sorted_dtags[last + 1] \notin Range(s.test_dtags)
            /\ s.res_min = resolution[sorted_dtags[last + 1]]
            /\ s.res_min >= SetMax(TestRes(s))

\* C10 witness: a built shell whose res_min is above all of its members.
C10_Witness ==
    /\ shell # NoShell
    /\ shell.test_dtags # <<>>
    /\ shell.res_min > SetMax(TestRes(shell))

\* C11 (as claimed): every shell's train_dtags has at least
\* min_characterisation_datasets members, unless InsufficientTrainingDataError
\* was raised.
C11_TrainAtLeastMinimum ==
    \A s \in BuiltShells :
        \/ Len(s.train_dtags) >= min_characterisation_datasets
        \/ result = "InsufficientTrainingDataError"

\* C12: a shell with fewer than two usable training datasets fails in the fit
\* with InsufficientTrainingDataError, and none of its test datasets gets a
\* Z-map or an event.
C12_NoModelNoEvents ==
    \A sn \in ShellNumbers :
        FitFails(sn) =>
            /\ shell_state[sn] \in {"pending", "running", "failed"}
            /\ shell_state[sn] = "failed" =>
                   shell_results[sn] = "InsufficientTrainingDataError"
            /\ zmaps[sn] = {}
            /\ \A k \in DOMAIN all_events : k[1] \notin run_shells[sn]

\* C12 witness: a shell whose test datasets hold events has failed in the fit
\* and the run is through.
C12_Witness ==
    /\ mpc = "done"
    /\ \E sn \in ShellNumbers :
         /\ usable_train[sn] = MinTrainingDatasets - 1
         /\ shell_state[sn] = "failed"
         /\ \E d \in run_shells[sn] : n_events[d] > 0

\* C13: whatever the order in which the events are taken up, the aggregation
\* ends with the partition into sites, and the site table, that taking them up
\* in the order of the input gives.
C13_SitesOrderIndependent ==
    spc = "done" =>
        /\ sites = SitesInOrder(Len(events_in))
        /\ site_rows = SiteRows(SitesInOrder(Len(events_in)))

\* C13 witness: the aggregation is through; the event taken up last joined two
\* events that are not within the cutoff of each other, and it is not the last
\* event of the input.
C13_Witness ==
    /\ spc = "done"
    /\ Len(events_in) = 3
    /\ site_order[3] # 3
    /\ sites = {{1, 2, 3}}
    /\ \E i, j \in 1..3 : ~WithinCutoff(events_in[i], events_in[j])

\* C14: two events within 1.7 Angstrom of each other are in one site; when no
\* other event is within 1.7 Angstrom of either, that site has exactly these
\* two members and its row counts 2.
C14_CloseEventsShareSite ==
    spc = "done" =>
        \A i, j \in 1..Len(events_in) :
            (i # j /\ 10 * Abs(events_in[i].x - events_in[j].x) <= 17) =>
                /\ \E st \in sites : {i, j} \subseteq st
                /\ (\A k \in (1..Len(events_in)) \ {i, j} :
                        /\ 10 * Abs(events_in[k].x - events_in[i].x) > 17
                        /\ 10 * Abs(events_in[k].x - events_in[j].x) > 17)
                   => /\ {i, j} \in sites
                      /\ [members |-> {i, j}, member_count |-> 2] \in site_rows

\* C14 witness: two events of different datasets, one Angstrom apart, and a
\* third event away from both; the two make one site of 2 members.
C14_Witness ==
    /\ spc = "done"
    /\ Len(events_in) = 3
    /\ \E i, j, k \in 1..3 :
         /\ events_in[i].dtag # events_in[j].dtag
         /\ Abs(events_in[i].x - events_in[j].x) = 1
         /\ Abs(events_in[k].x - events_in[i].x) > 1
         /\ Abs(events_in[k].x - events_in[j].x) > 1
         /\ [members |-> {i, j}, member_count |-> 2] \in site_rows

\* C16: the clusters handed to merge_clusters are those that passed the volume
\* filter and then the peak filter; each of them, and every event, has a volume
\* of at least min_blob_volume and a peak of at least min_blob_z_peak.
C16_FiltersBeforeMerge ==
    /\ cpc \in {"peaked", "merged", "events"} =>
         /\ clusterings_peaked \subseteq clusterings_large
         /\ clusterings_large \subseteq clusterings
         /\ \A c \in clusterings_peaked :
              c.volume >= min_blob_volume /\ c.peak >= min_blob_z_peak
    /\ cpc \in {"merged", "events"} =>
         /\ \A m \in clusterings_merged :
              m.members \subseteq {c.number : c \in clusterings_peaked}
         /\ {c.number : c \in clusterings_peaked} = UNION {m.members : m \in clusterings_merged}
    /\ \A e \in cluster_events :
         e.volume >= min_blob_volume /\ e.peak >= min_blob_z_peak

\* C16 witness: both thresholds are above the smallest value, a cluster that
\* passed the volume filter went at the peak filter, and another became an event.
C16_Witness ==
    /\ cpc = "events"
    /\ min_blob_volume > 1
    /\ min_blob_z_peak > 1
    /\ cluster_events # {}
    /\ clusterings_large \ clusterings_peaked # {}

\* C17: after the volume filter, a cluster of exactly min_blob_volume is kept
\* and a cluster one voxel volume below min_blob_volume is gone.
C17_VolumeFilterInclusive ==
    cpc \in {"large", "peaked", "merged", "events"} =>
        \A c \in clusterings :
            /\ c.volume = min_blob_volume => c \in clusterings_large
            /\ c.volume = min_blob_volume - 1 => c \notin clusterings_large

\* C17 witness: the filter has run on a cluster of exactly min_blob_volume and
\* on one a voxel volume smaller.
C17_Witness ==
    /\ cpc = "large"
    /\ \E c \in clusterings_large : c.volume = min_blob_volume
    /\ \E c \in clusterings \ clusterings_large : c.volume = min_blob_volume - 1

\* C18 (as claimed): the BDC of every event lies within [min_bdc, max_bdc] of
\* the configuration, and equals min_bdc when min_bdc = max_bdc.
C18_BdcWithinConfiguredRange ==
    \A k \in 1..Len(shell_events) :
        /\ min_bdc <= shell_events[k].bdc
        /\ shell_events[k].bdc <= max_bdc
        /\ min_bdc = max_bdc => shell_events[k].bdc = min_bdc

\* C19: a cluster whose surrounding region is degenerate gets a BDC of 0 and
\* its event is emitted; Events.from_clusters does not fail over it.
C19_DegenerateDefaultsToZero ==
    /\ epc # "failed"
    /\ \A k \in 1..Len(shell_events) :
         /\ shell_events[k].cluster = k
         /\ merged_in[k] => shell_events[k].bdc = 0
    /\ epc = "returned" => Len(shell_events) = Len(merged_in)

\* C19 witness: Events.from_clusters has returned; a degenerate cluster, with
\* a scan that starts above 0, has its event with a BDC of 0, and a later
\* cluster has its event too.
C19_Witness ==
    /\ epc = "returned"
    /\ bdc_scan.min > 0
    /\ Len(merged_in) = 2
    /\ merged_in[1]
    /\ ~merged_in[2]
    /\ shell_events[1].bdc = 0
    /\ shell_events[2].bdc > 0

\* C21 (as claimed): every shell the walk closes is emitted, under consecutive
\* numbers from 0 on; the test set of each emitted shell is a contiguous run of
\* sorted_dtags and no member of a shell is coarser than a member of the next.
C21_ShellsEmittedInOrder ==
    /\ shell # NoShell => \E k \in DOMAIN shells : shells[k] = shell
    /\ Len(shells) = shell_num
    /\ \A k \in DOMAIN shells :
         \E a \in 0..Len(sorted_dtags) :
             \A i \in DOMAIN shells[k].test_dtags :
                 /\ a + i <= Len(sorted_dtags)
                 /\ shells[k].test_dtags[i] = sorted_dtags[a + i]
    /\ \A k, l \in DOMAIN shells :
         k < l => \A d \in Range(shells[k].test_dtags) :
                      \A e \in Range(shells[l].test_dtags) :
                          resolution[d] <= resolution[e]

C23_ZmapsForTestOnly ==
    \A sn \in ShellNumbers :
        /\ zmaps[sn] \subseteq run_shells[sn]
        /\ shell_state[sn] = "returned" => zmaps[sn] = run_shells[sn]
        /\ \A d \in run_train \ run_shells[sn] :
             /\ d \notin zmaps[sn]
             /\ \A k \in DOMAIN all_events :
                  all_events[k].shell = sn => all_events[k].dtag # d

\* C23 witness: a shell is through whose model was trained on a dataset that is
\* no test member of it, a dataset that holds events; the shell's Z-maps are
\* those of its test datasets.
C23_Witness ==
    \E sn \in ShellNumbers :
        /\ shell_state[sn] = "returned"
        /\ zmaps[sn] = run_shells[sn]
        /\ \E d \in run_train \ run_shells[sn] : n_events[d] > 0

\* C24: every dataset with a Z-map has a sigma_i in the shell's model; a fitted
\* model holds a sigma_i for every test and training dataset of the shell,
\* while its mean and its sigma_s_m come from the training datasets alone.
C24_SigmaIForEveryZmap ==
    \A sn \in ShellNumbers :
        /\ zmaps[sn] \subseteq models[sn].sigma_is
        /\ shell_state[sn] \in {"fitted", "returned"} =>
             /\ models[sn].sigma_is = run_shells[sn] \cup run_train
             /\ models[sn].mean_from = run_train
             /\ models[sn].sigma_s_m_from = run_train

\* C24 witness: a Z-map was computed for a test dataset that is no training
\* dataset.
C24_Witness ==
    \E sn \in ShellNumbers :
        /\ shell_state[sn] = "returned"
        /\ \E d \in zmaps[sn] : d \notin run_train /\ d \in models[sn].sigma_is

\* C25 (as claimed): no shell, built or still accumulating, has more than
\* max_shell_datasets test members.
C25_AtMostMaxShellDatasets ==
    /\ \A s \in BuiltShells : Len(s.test_dtags) <= max_shell_datasets
    /\ Len(shell_dtags) <= max_shell_datasets

\* C26 (as claimed): once the filtering is through, every dataset of the final
\* collection has passed every filter of the chain.
C26_FinalDatasetsPassedAll ==
    PastFilters => \A d \in collections.datasets : fails[d] = "none"

\* C28 (as claimed): the datasets stored on a shell are exactly those whose
\* dtag is in the shell's test list or in its training list.
C28_ShellDatasetsAreTestAndTrain ==
    \A s \in BuiltShells :
        s.datasets = Range(s.test_dtags) \cup Range(s.train_dtags)

\* The values main's signature declares for the three strategy arguments.
DeclaredComparisonStrategies == {"closest", "high_res", "closest_cutoff"}

DeclaredLocalProcessings == {"serial", "joblib", "multiprocessing"}

DeclaredGlobalProcessings == {"serial", "cluster"}

\* C30 (as claimed): with declared values of comparison_strategy,
\* local_processing and global_processing, main does not end in
\* NotImplementedError or in the exception for an unrecognised value.
C30_DeclaredValuesAccepted ==
    (/\ comparison_strategy \in DeclaredComparisonStrategies
     /\ local_processing \in DeclaredLocalProcessings
     /\ global_processing \in DeclaredGlobalProcessings)
        => error \notin {"NotImplementedError", "Exception"}

\* C27: once remove_incomplete_up_to_resolution_datasets has finished, it has
\* returned, and what it returned is exactly the datasets with no reflection
\* of amplitude 0 at or above the given resolution.
C27_ReturnsCompleteDatasets ==
    ipc \in {"returned", "AttributeError"} =>
        /\ ipc = "returned"
        /\ new_datasets = CompleteDtags

\* The ResidueIDs of all the polymer residues of the structure.
PolymerResidueIDs == {<<c, r>> : c \in ChainNumbers, r \in 1..MaxChainLen} \cap
                     UNION {{<<c, r>> : r \in 1..chains[c]} : c \in ChainNumbers}

\* C29: once Alignment.from_dataset has finished, it has returned one
\* transform per polymer residue under the residue's own ResidueID: the
\* start-of-chain one for a residue with no previous residue, the end-of-chain
\* one for a residue with no next residue, the three-residue fit otherwise.
C29_OneTransformPerResidue ==
    apc \in {"returned", "AttributeError"} =>
        /\ apc = "returned"
        /\ DOMAIN transforms = PolymerResidueIDs
        /\ \A id \in PolymerResidueIDs :
              LET no_prev == PreviousResidue(id[1], id[2]) = NoResidue
                  no_next == NextResidue(id[1], id[2]) = NoResidue
              IN /\ (no_prev /\ ~no_next) => transforms[id] = "from_start_residues"
                 /\ (no_next /\ ~no_prev) => transforms[id] = "from_finish_residues"
                 /\ (~no_prev /\ ~no_next) => transforms[id] = "from_residues"
                 /\ (no_prev /\ no_next) =>
                       transforms[id] \in {"from_start_residues", "from_finish_residues"}

====
